---------------------------- MODULE Spec2Model ----------------------------
(***************************************************************************)
(* Kleroteria express-api: the users controller (sign-up, sign-in,         *)
(* sign-out, current user, and the e-mail verification code handlers) over *)
(* the users / sessions / tokens tables of packages/database.              *)
(*                                                                         *)
(* Every handler is an async function.  One action of the model is one     *)
(* awaited operation (a database statement, a bcrypt call, the mail send)  *)
(* together with the synchronous code that follows it up to the next       *)
(* await; the first action of a handler is the arrival of the request with *)
(* the synchronous code up to the first await.  Handlers of different      *)
(* requests interleave at these points only (one JavaScript thread, one    *)
(* statement per database round trip, no transaction anywhere).            *)
(*                                                                         *)
(* Strings are sequences of one-character strings, time is in              *)
(* milliseconds as in the code.                                            *)
(***************************************************************************)
EXTENDS Integers, Sequences, FiniteSets, TLC

VARIABLES
    users,       \* rows of table "users"
    sessions,    \* rows of table "sessions"
    tokens,      \* rows of table "tokens"
    now,         \* the clock read by Date.now() / new Date()
    req,         \* the requests in flight: slot -> handler position and locals
    nextSession, \* the next value of the random source of session ids/tokens
    consumed,    \* history: ids of the tokens a verify request has succeeded with
    superseded,  \* history: ids of the PENDING tokens a resend has expired
    calls        \* the number of requests that have arrived (Spec, SpecAll)

vars == <<users, sessions, tokens, now, req, nextSession, consumed, superseded, calls>>

-----------------------------------------------------------------------------
(* Bounds of the model *)

MaxReqs == 2          \* request slots of Spec, SpecAll and SpecTok
MaxIssuers == 3       \* request slots of SpecIssue
MaxSignUps == 3       \* request slots of SpecSignUp
NumCodes == 2         \* distinct draws of generateCode
MaxTicks == 2         \* clock advances of TickMs each
MaxSessions == 3      \* sessions ever minted
MaxCalls == 3         \* requests served in Spec, SpecAll and SpecSess
MaxDays == 1          \* clock advances of DayMs each
MaxSerial == 1        \* request slots of SpecSess

TickMs == 5 * 60 * 1000
DayMs == 24 * 60 * 60 * 1000

(* Program constants *)

CodeLen == 6
MinPasswordLen == 6
TokenTtlMs == 10 * 60 * 1000
LongSessionMs == 7 * 24 * 60 * 60 * 1000
ShortSessionMs == 24 * 60 * 60 * 1000

-----------------------------------------------------------------------------
(* Strings *)

LowerAlpha == <<"a","b","c","d","e","f","g","h","i","j","k","l","m",
                "n","o","p","q","r","s","t","u","v","w","x","y","z">>
UpperAlpha == <<"A","B","C","D","E","F","G","H","I","J","K","L","M",
                "N","O","P","Q","R","S","T","U","V","W","X","Y","Z">>
Digits == <<"0","1","2","3","4","5","6","7","8","9">>

Range(s) == { s[i] : i \in DOMAIN s }

\* String.prototype.toUpperCase on the characters the model uses
ToUpperChar(c) ==
    IF \E i \in DOMAIN LowerAlpha : LowerAlpha[i] = c
    THEN UpperAlpha[CHOOSE i \in DOMAIN LowerAlpha : LowerAlpha[i] = c]
    ELSE c

toUpperCase(s) == [ i \in DOMAIN s |-> ToUpperChar(s[i]) ]

\* /^[^\s@]+@[^\s@]+\.[^\s@]+$/ : some "@" at i and some "." at j > i + 1 split
\* the string into three non-empty parts, none holding a blank or another "@"
emailRegexTest(s) ==
    \E i, j \in DOMAIN s :
        /\ 1 < i /\ i + 1 < j /\ j < Len(s)
        /\ s[i] = "@" /\ s[j] = "."
        /\ \A k \in DOMAIN s : k # i => s[k] \notin {"@", " "}

\* /^[A-Za-z0-9]+$/
alnumRegexTest(s) ==
    /\ Len(s) > 0
    /\ \A k \in DOMAIN s : s[k] \in Range(LowerAlpha) \cup Range(UpperAlpha) \cup Range(Digits)

\* generateCode: CodeLen draws from 'A'..'Z','0'..'9'.  The draws of the random
\* source are bounded to the NumCodes sequences that repeat one character.
characters == UpperAlpha \o Digits

generateCode == { [ i \in 1..CodeLen |-> characters[k] ] : k \in 1..NumCodes }

\* bcrypt.hash / bcrypt.compare: the hash is a salted one-way image of the
\* plaintext, compare recomputes it
bcryptHash(password) == [ alg |-> "bcrypt", rounds |-> 12, of |-> password ]

bcryptCompare(password, hash) == hash = bcryptHash(password)

-----------------------------------------------------------------------------
(* Rows and requests *)

NoUser == 0           \* req.user undefined
NoCookie == 0         \* no sessionToken cookie
ClearedCookie == -1   \* res.clearCookie('sessionToken')
NoRow == [ id |-> 0 ] \* an empty select result / an unset local

Reqs == DOMAIN req

\* A handler that is not running: every local unset
IdleReq ==
    [ op |-> "none", pc |-> "idle", reqUser |-> NoUser, cookie |-> NoCookie,
      body |-> <<>>, row |-> NoRow, hashedPassword |-> <<>>, session |-> NoRow,
      code |-> <<>>, token |-> NoRow, mailed |-> <<>>, res |-> <<>> ]

\* res.status(status).json({success, message, data}) with the cookie it sets
Resp(status, message, data, cookie, maxAge) ==
    [ status |-> status, message |-> message, data |-> data,
      cookie |-> cookie, maxAge |-> maxAge ]

Json(status, message, data) == Resp(status, message, data, NoCookie, 0)

\* The handler returns: its locals are gone; what the request was and what
\* it was answered stay with the slot until the response is delivered
Done(q, res) ==
    [ IdleReq EXCEPT !.op = q.op, !.pc = "done", !.reqUser = q.reqUser,
                     !.body = q.body, !.mailed = q.mailed, !.res = res ]

\* The slot takes a request
Free(r) == req[r].pc = "idle"

Goto(q, pc) == [ q EXCEPT !.pc = pc ]

\* The projection of a user row every handler returns as data.user
userView(u) ==
    [ id |-> u.id, firstName |-> u.firstName, lastName |-> u.lastName,
      email |-> u.email, phone |-> u.phone, role |-> u.role,
      emailVerified |-> u.emailVerified, phoneVerified |-> u.phoneVerified ]

\* db.select().from(users).where(eq(...)).limit(1): any one matching row
OneOf(rows) == IF rows = {} THEN {NoRow} ELSE rows

\* Variant: a users table whose only constraint is the primary key
usersInsertOkIdOnly(row) == \A u \in users : u.id # row.id

\* users: id primary key, email and phone unique
usersInsertOk(row) ==
    \A u \in users : u.id # row.id /\ u.email # row.email /\ u.phone # row.phone

\* sessions: id primary key, token unique, user_id references users
sessionsInsertOk(row) ==
    /\ \A s \in sessions : s.id # row.id /\ s.token # row.token
    /\ \E u \in users : u.id = row.userId

\* Variant: the tokens table with its primary key and no unique code
tokensInsertOkIdOnly(row) ==
    /\ \A t \in tokens : t.id # row.id
    /\ \E u \in users : u.id = row.userId

\* tokens: id primary key, code unique, user_id references users
tokensInsertOk(row) ==
    /\ \A t \in tokens : t.id # row.id /\ t.code # row.code
    /\ \E u \in users : u.id = row.userId

\* randomBytes(16).toString('hex') for a user / a token: 128 random bits, a
\* value no stored row has; it is drawn when the row is written
generateUserId == Cardinality(users) + 1

generateTokenId == Cardinality(tokens) + 1

\* Sessions in flight or stored never outnumber MaxSessions
MayMintSession ==
    (nextSession - 1)
      + Cardinality({ r \in Reqs : req[r].op \in {"signUp", "signIn"}
                                     /\ req[r].pc # "done"
                                     /\ req[r].session.id = 0 })
      < MaxSessions

\* authenticateUser (middleware/users.middleware): the session named by the
\* cookie, unless absent or expired, gives req.user; it runs before the
\* handler, and a request it gives no user gets no further than the 401
authenticateUser(cookie) ==
    LET live == { s \in sessions : s.token = cookie /\ s.expiresAt > now }
    IN  IF cookie = NoCookie \/ live = {} THEN NoUser
        ELSE (CHOOSE s \in live : TRUE).userId

Cookies == 0..(nextSession - 1)

-----------------------------------------------------------------------------
(* Request bodies *)

Str1 == <<"A">>
Email1 == <<"a","@","x",".","y">>
Email2 == <<"b","@","x",".","y">>
Phone1 == <<"+","1">>
Phone2 == <<"+","2">>
Secret == <<"s","e","c","r","e","t">>
Wrong == <<"w","r","o","n","g","1">>

ValidSignUp ==
    [ firstName : {Str1}, lastName : {Str1}, email : {Email1, Email2},
      phone : {Phone1, Phone2}, password : {Secret} ]

SignUpBodies ==
    ValidSignUp \cup
    { [ firstName |-> <<>>, lastName |-> Str1, email |-> Email1,
        phone |-> Phone1, password |-> Secret ],
      [ firstName |-> Str1, lastName |-> Str1, email |-> <<"a","@","x">>,
        phone |-> Phone1, password |-> Secret ],
      [ firstName |-> Str1, lastName |-> Str1, email |-> Email1,
        phone |-> Phone1, password |-> <<"s","e","c","r","e">> ] }

SignInBodies ==
    [ email : {Email1, Email2}, password : {Secret, Wrong}, rememberMe : BOOLEAN ]
    \cup { [ email |-> <<>>, password |-> Secret, rememberMe |-> FALSE ] }

-----------------------------------------------------------------------------
(* signUp *)

\* Variant: the validation without the password length
signUpValidAnyPassword(b) ==
    /\ b.firstName # <<>> /\ b.lastName # <<>> /\ b.email # <<>>
    /\ b.phone # <<>> /\ b.password # <<>>
    /\ emailRegexTest(b.email)

\* Validate required fields, email, password strength
signUpValid(b) ==
    /\ b.firstName # <<>> /\ b.lastName # <<>> /\ b.email # <<>>
    /\ b.phone # <<>> /\ b.password # <<>>
    /\ emailRegexTest(b.email)
    /\ ~ (Len(b.password) < MinPasswordLen)

SignUpStart(r) ==
    /\ Free(r)
    /\ MayMintSession
    /\ \E b \in SignUpBodies :
         LET q == [ IdleReq EXCEPT !.op = "signUp", !.body = b ]
         IN  req' = [ req EXCEPT ![r] =
                        IF signUpValid(b) THEN Goto(q, "su_select")
                        ELSE Done(q, Json(400, "Bad Request", <<>>)) ]
    /\ UNCHANGED <<users, sessions, tokens, now, nextSession, consumed, superseded>>

\* Check conflict: select by email
SignUpSelect(r) ==
    /\ req[r].op = "signUp" /\ req[r].pc = "su_select"
    /\ LET existingUser == { u \in users : u.email = req[r].body.email }
       IN  req' = [ req EXCEPT ![r] =
                      IF existingUser # {} THEN Done(@, Json(409, "Conflict", <<>>))
                      ELSE Goto(@, "su_hash") ]
    /\ UNCHANGED <<users, sessions, tokens, now, nextSession, consumed, superseded>>

SignUpHash(r) ==
    /\ req[r].op = "signUp" /\ req[r].pc = "su_hash"
    /\ req' = [ req EXCEPT ![r] =
                  [ @ EXCEPT !.pc = "su_insert",
                             !.hashedPassword = bcryptHash(req[r].body.password) ] ]
    /\ UNCHANGED <<users, sessions, tokens, now, nextSession, consumed, superseded>>

newUserRow(userId, b, hashedPassword) ==
    [ id |-> userId, name |-> b.firstName \o <<" ">> \o b.lastName,
      firstName |-> b.firstName, lastName |-> b.lastName, email |-> b.email,
      password |-> hashedPassword, phone |-> b.phone, role |-> "FREE",
      emailVerified |-> FALSE, phoneVerified |-> FALSE ]

\* Create user; a violated constraint throws into the catch block (500).
\* Then the session id, token and expiry are drawn for the next insert.
SignUpInsertUser(r) ==
    /\ req[r].op = "signUp" /\ req[r].pc = "su_insert"
    /\ LET newUser == newUserRow(generateUserId, req[r].body, req[r].hashedPassword)
       IN  IF usersInsertOk(newUser)
           THEN /\ users' = users \cup {newUser}
                /\ req' = [ req EXCEPT ![r] =
                     [ @ EXCEPT !.pc = "su_session", !.row = newUser,
                                !.session = [ id |-> nextSession,
                                              token |-> nextSession,
                                              expiresAt |-> now + LongSessionMs ] ] ]
                /\ nextSession' = nextSession + 1
           ELSE /\ req' = [ req EXCEPT ![r] =
                              Done(@, Json(500, "Internal Server Error", <<>>)) ]
                /\ UNCHANGED <<users, nextSession>>
    /\ UNCHANGED <<sessions, tokens, now, consumed, superseded>>

newSessionRow(userId, s) ==
    [ id |-> s.id, userId |-> userId, token |-> s.token,
      expiresAt |-> s.expiresAt, createdAt |-> now ]

SignUpInsertSession(r) ==
    /\ req[r].op = "signUp" /\ req[r].pc = "su_session"
    /\ LET row == newSessionRow(req[r].row.id, req[r].session)
       IN  IF sessionsInsertOk(row)
           THEN /\ sessions' = sessions \cup {row}
                /\ req' = [ req EXCEPT ![r] =
                     Done(@, Resp(201, "User created successfully",
                                  userView(@.row), @.session.token, LongSessionMs)) ]
           ELSE /\ req' = [ req EXCEPT ![r] =
                              Done(@, Json(500, "Internal Server Error", <<>>)) ]
                /\ UNCHANGED sessions
    /\ UNCHANGED <<users, tokens, now, nextSession, consumed, superseded>>

-----------------------------------------------------------------------------
(* signIn *)

SignInStart(r) ==
    /\ Free(r)
    /\ MayMintSession
    /\ \E b \in SignInBodies :
         LET q == [ IdleReq EXCEPT !.op = "signIn", !.body = b ]
         IN  req' = [ req EXCEPT ![r] =
                        IF b.email = <<>> \/ b.password = <<>>
                        THEN Done(q, Json(400, "Bad Request", <<>>))
                        ELSE Goto(q, "si_select") ]
    /\ UNCHANGED <<users, sessions, tokens, now, nextSession, consumed, superseded>>

\* Variant: an unknown email is answered 404
SignInSelectNotFound(r) ==
    /\ req[r].op = "signIn" /\ req[r].pc = "si_select"
    /\ \E user \in OneOf({ u \in users : u.email = req[r].body.email }) :
         req' = [ req EXCEPT ![r] =
                    IF user.id = 0 THEN Done(@, Json(404, "User not found", <<>>))
                    ELSE [ @ EXCEPT !.pc = "si_compare", !.row = user ] ]
    /\ UNCHANGED <<users, sessions, tokens, now, nextSession, consumed, superseded>>

\* Find user
SignInSelect(r) ==
    /\ req[r].op = "signIn" /\ req[r].pc = "si_select"
    /\ \E user \in OneOf({ u \in users : u.email = req[r].body.email }) :
         req' = [ req EXCEPT ![r] =
                    IF user.id = 0 THEN Done(@, Json(401, "Unauthorized", <<>>))
                    ELSE [ @ EXCEPT !.pc = "si_compare", !.row = user ] ]
    /\ UNCHANGED <<users, sessions, tokens, now, nextSession, consumed, superseded>>

\* Variant: every sign-in is given the long duration
sessionDurationLong(rememberMe) == LongSessionMs

sessionDuration(rememberMe) == IF rememberMe THEN LongSessionMs ELSE ShortSessionMs

\* Verify password; then the session id, token, duration and expiry are drawn
\* and the clock is read for the delete of the expired sessions
SignInCompare(r) ==
    /\ req[r].op = "signIn" /\ req[r].pc = "si_compare"
    /\ IF bcryptCompare(req[r].body.password, req[r].row.password)
       THEN /\ req' = [ req EXCEPT ![r] =
                 [ @ EXCEPT !.pc = "si_delete",
                            !.session =
                               [ id |-> nextSession, token |-> nextSession,
                                 expiresAt |-> now + sessionDuration(req[r].body.rememberMe),
                                 cutoff |-> now ] ] ]
            /\ nextSession' = nextSession + 1
       ELSE /\ req' = [ req EXCEPT ![r] = Done(@, Json(401, "Unauthorized", <<>>)) ]
            /\ UNCHANGED nextSession
    /\ UNCHANGED <<users, sessions, tokens, now, consumed, superseded>>

\* Variant: the sign-in without the delete of the expired sessions
SignInDeleteNone(r) ==
    /\ req[r].op = "signIn" /\ req[r].pc = "si_delete"
    /\ req' = [ req EXCEPT ![r] = Goto(@, "si_insert") ]
    /\ UNCHANGED <<users, sessions, tokens, now, nextSession, consumed, superseded>>

\* Delete expired sessions: lt(sessions.expiresAt, new Date())
SignInDelete(r) ==
    /\ req[r].op = "signIn" /\ req[r].pc = "si_delete"
    /\ sessions' = { s \in sessions :
                       ~ (s.userId = req[r].row.id /\ s.expiresAt < req[r].session.cutoff) }
    /\ req' = [ req EXCEPT ![r] = Goto(@, "si_insert") ]
    /\ UNCHANGED <<users, tokens, now, nextSession, consumed, superseded>>

SignInInsert(r) ==
    /\ req[r].op = "signIn" /\ req[r].pc = "si_insert"
    /\ LET row == newSessionRow(req[r].row.id, req[r].session)
       IN  IF sessionsInsertOk(row)
           THEN /\ sessions' = sessions \cup {row}
                /\ req' = [ req EXCEPT ![r] =
                     Done(@, Resp(200, "Signed in successfully", userView(@.row),
                                  @.session.token,
                                  sessionDuration(@.body.rememberMe))) ]
           ELSE /\ req' = [ req EXCEPT ![r] =
                              Done(@, Json(500, "Internal Server Error", <<>>)) ]
                /\ UNCHANGED sessions
    /\ UNCHANGED <<users, tokens, now, nextSession, consumed, superseded>>

-----------------------------------------------------------------------------
(* signOut *)

SignOutStart(r) ==
    /\ Free(r)
    /\ \E sessionToken \in Cookies :
         LET q == [ IdleReq EXCEPT !.op = "signOut", !.cookie = sessionToken ]
         IN  req' = [ req EXCEPT ![r] =
                        IF sessionToken # NoCookie THEN Goto(q, "so_delete")
                        ELSE Done(q, Resp(200, "Signed out successfully", <<>>,
                                          ClearedCookie, 0)) ]
    /\ UNCHANGED <<users, sessions, tokens, now, nextSession, consumed, superseded>>

\* Variant: the delete is keyed on the user of the session, not on the token
SignOutDeleteUser(r) ==
    /\ req[r].op = "signOut" /\ req[r].pc = "so_delete"
    /\ sessions' = { s \in sessions :
                       \A t \in sessions : t.token = req[r].cookie => t.userId # s.userId }
    /\ req' = [ req EXCEPT ![r] =
                  Done(@, Resp(200, "Signed out successfully", <<>>, ClearedCookie, 0)) ]
    /\ UNCHANGED <<users, tokens, now, nextSession, consumed, superseded>>

SignOutDelete(r) ==
    /\ req[r].op = "signOut" /\ req[r].pc = "so_delete"
    /\ sessions' = { s \in sessions : s.token # req[r].cookie }
    /\ req' = [ req EXCEPT ![r] =
                  Done(@, Resp(200, "Signed out successfully", <<>>, ClearedCookie, 0)) ]
    /\ UNCHANGED <<users, tokens, now, nextSession, consumed, superseded>>

-----------------------------------------------------------------------------
(* The protected routes: authenticateUser, then the handler *)

\* Variant: the request goes on whether or not req.user is set
ArriveUnchecked(q) == Goto(q, "user")

\* Get user: req.user, 401 when it is not set.  The refused request keeps the
\* cookie it came with until the response is delivered.
Arrive(q) ==
    IF q.reqUser = NoUser
    THEN [ Done(q, Json(401, "Unauthorized", <<>>)) EXCEPT !.cookie = q.cookie ]
    ELSE Goto(q, "user")

\* Of currentUser the token handlers read the id and, for the mail, the first
\* name: the local keeps those
Read(currentUser) == [ id |-> currentUser.id, firstName |-> currentUser.firstName ]

\* Variant: the handler goes on with req.user whether or not the row exists
GetCurrentUserRowUnchecked(r, next) ==
    req' = [ req EXCEPT ![r] =
               [ @ EXCEPT !.pc = next,
                          !.row = [ id |-> req[r].reqUser, firstName |-> Str1 ] ] ]

\* Get current user: select from users by req.user.id, 401 when there is none
GetCurrentUserRow(r, next) ==
    \E currentUser \in OneOf({ u \in users : u.id = req[r].reqUser }) :
        req' = [ req EXCEPT ![r] =
                   IF currentUser.id = 0 THEN Done(@, Json(401, "Unauthorized", <<>>))
                   ELSE [ @ EXCEPT !.pc = next, !.row = Read(currentUser) ] ]

(* getCurrentUser *)

MeStart(r) ==
    /\ Free(r)
    /\ \E cookie \in Cookies :
         req' = [ req EXCEPT ![r] =
                    Arrive([ IdleReq EXCEPT !.op = "me", !.cookie = cookie,
                                            !.reqUser = authenticateUser(cookie) ]) ]
    /\ UNCHANGED <<users, sessions, tokens, now, nextSession, consumed, superseded>>

MeSelect(r) ==
    /\ req[r].op = "me" /\ req[r].pc = "user"
    /\ \E currentUser \in OneOf({ u \in users : u.id = req[r].reqUser }) :
         req' = [ req EXCEPT ![r] =
                    IF currentUser.id = 0 THEN Done(@, Json(401, "Unauthorized", <<>>))
                    ELSE Done(@, Json(200, "", userView(currentUser))) ]
    /\ UNCHANGED <<users, sessions, tokens, now, nextSession, consumed, superseded>>

-----------------------------------------------------------------------------
(* The verification tokens *)

\* Variant: the lookup without gt(expiresAt, new Date())
existingValidTokensAnyExpiry(userId) ==
    { t \in tokens : /\ t.userId = userId /\ t.type = "EMAIL"
                     /\ t.status = "PENDING" }

\* and(eq(userId), eq(type, 'EMAIL'), eq(status, 'PENDING'), gt(expiresAt, new Date()))
existingValidTokens(userId) ==
    { t \in tokens : /\ t.userId = userId /\ t.type = "EMAIL"
                     /\ t.status = "PENDING" /\ t.expiresAt > now }

\* Variant: the update matches no row
expireAllTokensNone(userId) == tokens

\* Variant: the rows are deleted, not updated
expireAllTokensDelete(userId) ==
    { t \in tokens : ~ (t.userId = userId /\ t.type = "EMAIL") }

\* update(tokens).set({status: 'EXPIRED'}).where(and(eq(userId), eq(type, 'EMAIL')))
expireAllTokens(userId) ==
    { IF t.userId = userId /\ t.type = "EMAIL"
      THEN [ t EXCEPT !.status = "EXPIRED" ] ELSE t : t \in tokens }

newTokenRow(userId, verificationCode) ==
    [ id |-> generateTokenId, userId |-> userId, code |-> verificationCode,
      type |-> "EMAIL", status |-> "PENDING",
      expiresAt |-> now + TokenTtlMs, createdAt |-> now ]

\* Create new token; a violated constraint throws into the catch block (500)
InsertToken(r, next) ==
    LET newToken == newTokenRow(req[r].row.id, req[r].code)
    IN  IF tokensInsertOk(newToken)
        THEN /\ tokens' = tokens \cup {newToken}
             /\ req' = [ req EXCEPT ![r] = [ @ EXCEPT !.pc = next, !.token = newToken ] ]
        ELSE /\ req' = [ req EXCEPT ![r] =
                           Done(@, Json(500, "Internal Server Error", <<>>)) ]
             /\ UNCHANGED tokens

\* History: the code the request handed to resend.emails.send, and for whom
Mailed(q) ==
    [ q EXCEPT !.mailed = [ to |-> "bigtexascompsci@proton.me", code |-> q.code ] ]

\* Send email: resend.emails.send answers {data} or {error}
SendEmail(r, message) ==
    \E error \in BOOLEAN :
        IF error
        THEN req' = [ req EXCEPT ![r] =
                        Done(Mailed(@), Json(500, "Internal Server Error", <<>>)) ]
        ELSE req' = [ req EXCEPT ![r] = Done(Mailed(@), Json(200, message, @.token)) ]

(* sendEmailVerificationCode *)

SendStart(r) ==
    /\ Free(r)
    /\ \E cookie \in Cookies :
         LET user == authenticateUser(cookie)
         IN  req' = [ req EXCEPT ![r] =
                 Arrive([ IdleReq EXCEPT
                            !.op = "send", !.cookie = cookie, !.reqUser = user ]) ]
    /\ UNCHANGED <<users, sessions, tokens, now, nextSession, consumed, superseded>>

SendGetUser(r) ==
    /\ req[r].op = "send" /\ req[r].pc = "user"
    /\ GetCurrentUserRow(r, "se_find")
    /\ UNCHANGED <<users, sessions, tokens, now, nextSession, consumed, superseded>>

\* Variant: the handler without the lookup of an existing valid token
SendFindNoReuse(r) ==
    /\ req[r].op = "send" /\ req[r].pc = "se_find"
    /\ \E verificationCode \in generateCode :
         req' = [ req EXCEPT ![r] =
                    [ @ EXCEPT !.pc = "se_expire", !.code = verificationCode ] ]
    /\ UNCHANGED <<users, sessions, tokens, now, nextSession, consumed, superseded>>

\* Get existing valid token: return it, or generate the verification code
SendFind(r) ==
    /\ req[r].op = "send" /\ req[r].pc = "se_find"
    /\ \E existingValidToken \in OneOf(existingValidTokens(req[r].row.id)) :
         IF existingValidToken.id # 0
         THEN req' = [ req EXCEPT ![r] = Done(@, Json(200, "", existingValidToken)) ]
         ELSE \E verificationCode \in generateCode :
                req' = [ req EXCEPT ![r] =
                           [ @ EXCEPT !.pc = "se_expire", !.code = verificationCode ] ]
    /\ UNCHANGED <<users, sessions, tokens, now, nextSession, consumed, superseded>>

\* Expire all tokens
SendExpire(r) ==
    /\ req[r].op = "send" /\ req[r].pc = "se_expire"
    /\ tokens' = expireAllTokens(req[r].row.id)
    /\ req' = [ req EXCEPT ![r] = Goto(@, "se_insert") ]
    /\ UNCHANGED <<users, sessions, now, nextSession, consumed, superseded>>

SendInsert(r) ==
    /\ req[r].op = "send" /\ req[r].pc = "se_insert"
    /\ InsertToken(r, "se_mail")
    /\ UNCHANGED <<users, sessions, now, nextSession, consumed, superseded>>

\* Variant: a failed send takes the request's token back out of the table
SendMailRollback(r) ==
    /\ req[r].op = "send" /\ req[r].pc = "se_mail"
    /\ SendEmail(r, "Verification code sent successfully")
    /\ tokens' = IF req'[r].res.status = 200 THEN tokens
                 ELSE { t \in tokens : t.id # req[r].token.id }
    /\ UNCHANGED <<users, sessions, now, nextSession, consumed, superseded>>

SendMail(r) ==
    /\ req[r].op = "send" /\ req[r].pc = "se_mail"
    /\ SendEmail(r, "Verification code sent successfully")
    /\ UNCHANGED <<users, sessions, tokens, now, nextSession, consumed, superseded>>

(* resendEmailVerificationCode *)

ResendStart(r) ==
    /\ Free(r)
    /\ \E cookie \in Cookies :
         LET user == authenticateUser(cookie)
         IN  req' = [ req EXCEPT ![r] =
                 Arrive([ IdleReq EXCEPT
                            !.op = "resend", !.cookie = cookie, !.reqUser = user ]) ]
    /\ UNCHANGED <<users, sessions, tokens, now, nextSession, consumed, superseded>>

\* Get current user, then generate the verification code
ResendGetUser(r) ==
    /\ req[r].op = "resend" /\ req[r].pc = "user"
    /\ \E currentUser \in OneOf({ u \in users : u.id = req[r].reqUser }),
          verificationCode \in generateCode :
         req' = [ req EXCEPT ![r] =
                    IF currentUser.id = 0 THEN Done(@, Json(401, "Unauthorized", <<>>))
                    ELSE [ @ EXCEPT !.pc = "re_expire", !.row = Read(currentUser),
                                    !.code = verificationCode ] ]
    /\ UNCHANGED <<users, sessions, tokens, now, nextSession, consumed, superseded>>

\* Expire all existing tokens.  History: the PENDING tokens the user has at
\* this point are the ones this resend supersedes.
ResendExpire(r) ==
    /\ req[r].op = "resend" /\ req[r].pc = "re_expire"
    /\ tokens' = expireAllTokens(req[r].row.id)
    /\ superseded' = superseded \cup
         { t.id : t \in { x \in tokens : /\ x.userId = req[r].row.id
                                          /\ x.type = "EMAIL"
                                          /\ x.status = "PENDING" } }
    /\ req' = [ req EXCEPT ![r] = Goto(@, "re_insert") ]
    /\ UNCHANGED <<users, sessions, now, nextSession, consumed>>

ResendInsert(r) ==
    /\ req[r].op = "resend" /\ req[r].pc = "re_insert"
    /\ InsertToken(r, "re_mail")
    /\ UNCHANGED <<users, sessions, now, nextSession, consumed, superseded>>

ResendMail(r) ==
    /\ req[r].op = "resend" /\ req[r].pc = "re_mail"
    /\ SendEmail(r, "")
    /\ UNCHANGED <<users, sessions, tokens, now, nextSession, consumed, superseded>>

(* verifyEmailVerificationCode *)

VerifyBodies ==
    generateCode \cup
    { <<"a","a","a","a","a","a">>,      \* the first code in lower case
      <<"A","A","A">>,                  \* too short
      <<"A","A","A","A","A","-">>,      \* not alphanumeric
      <<>> }                            \* missing

verifyValid(code) ==
    /\ code # <<>>
    /\ ~ (Len(code) # CodeLen \/ ~ alnumRegexTest(code))

\* authenticateUser, then the validation of the code, then req.user
VerifyStart(r) ==
    /\ Free(r)
    /\ \E cookie \in Cookies, code \in VerifyBodies :
         LET user == authenticateUser(cookie)
             q == [ IdleReq EXCEPT !.op = "verify", !.cookie = cookie,
                                   !.reqUser = user, !.body = [ code |-> code ] ]
         IN  req' = [ req EXCEPT ![r] =
                        IF user = NoUser \/ verifyValid(code) THEN Arrive(q)
                        ELSE Done(q, Json(400, "Bad Request", <<>>)) ]
    /\ UNCHANGED <<users, sessions, tokens, now, nextSession, consumed, superseded>>

VerifyGetUser(r) ==
    /\ req[r].op = "verify" /\ req[r].pc = "user"
    /\ GetCurrentUserRow(r, "ve_find")
    /\ UNCHANGED <<users, sessions, tokens, now, nextSession, consumed, superseded>>

\* Variant: the lookup without gt(expiresAt, new Date())
validTokensAnyExpiry(userId, code) ==
    { t \in tokens : /\ t.userId = userId /\ t.code = toUpperCase(code)
                     /\ t.type = "EMAIL" /\ t.status = "PENDING" }

\* Variant: the lookup without eq(status, 'PENDING')
validTokensAnyStatus(userId, code) ==
    { t \in tokens : /\ t.userId = userId /\ t.code = toUpperCase(code)
                     /\ t.type = "EMAIL" /\ t.expiresAt > now }

\* Variant: the lookup without eq(userId)
validTokensAnyUser(userId, code) ==
    { t \in tokens : /\ t.code = toUpperCase(code)
                     /\ t.type = "EMAIL" /\ t.status = "PENDING"
                     /\ t.expiresAt > now }

\* and(eq(userId), eq(code, code.toUpperCase()), eq(type, 'EMAIL'),
\*     eq(status, 'PENDING'), gt(expiresAt, new Date()))
validTokens(userId, code) ==
    { t \in tokens : /\ t.userId = userId /\ t.code = toUpperCase(code)
                     /\ t.type = "EMAIL" /\ t.status = "PENDING"
                     /\ t.expiresAt > now }

\* Find valid token; none is answered 500 'Internal Server Error'
VerifyFind(r) ==
    /\ req[r].op = "verify" /\ req[r].pc = "ve_find"
    /\ \E validToken \in OneOf(validTokens(req[r].row.id, req[r].body.code)) :
         req' = [ req EXCEPT ![r] =
                    IF validToken.id = 0
                    THEN Done(@, Json(500, "Internal Server Error", <<>>))
                    ELSE [ @ EXCEPT !.pc = "ve_expire", !.token = validToken ] ]
    /\ UNCHANGED <<users, sessions, tokens, now, nextSession, consumed, superseded>>

\* Update token status: where(eq(tokens.id, validToken.id))
VerifyExpire(r) ==
    /\ req[r].op = "verify" /\ req[r].pc = "ve_expire"
    /\ tokens' = { IF t.id = req[r].token.id THEN [ t EXCEPT !.status = "EXPIRED" ]
                   ELSE t : t \in tokens }
    /\ req' = [ req EXCEPT ![r] = Goto(@, "ve_flag") ]
    /\ UNCHANGED <<users, sessions, now, nextSession, consumed, superseded>>

\* Variant: the update sets both verification flags
VerifyFlagBoth(r) ==
    /\ req[r].op = "verify" /\ req[r].pc = "ve_flag"
    /\ users' = { IF u.id = req[r].row.id
                  THEN [ u EXCEPT !.emailVerified = TRUE, !.phoneVerified = TRUE ]
                  ELSE u : u \in users }
    /\ req' = [ req EXCEPT ![r] = Goto(@, "ve_cleanup") ]
    /\ UNCHANGED <<sessions, tokens, now, nextSession, consumed, superseded>>

\* Update email verification status
VerifyFlag(r) ==
    /\ req[r].op = "verify" /\ req[r].pc = "ve_flag"
    /\ users' = { IF u.id = req[r].row.id THEN [ u EXCEPT !.emailVerified = TRUE ]
                  ELSE u : u \in users }
    /\ req' = [ req EXCEPT ![r] = Goto(@, "ve_cleanup") ]
    /\ UNCHANGED <<sessions, tokens, now, nextSession, consumed, superseded>>

\* Variant: the verify without the expiry of the other PENDING tokens
VerifyCleanupNone(r) ==
    /\ req[r].op = "verify" /\ req[r].pc = "ve_cleanup"
    /\ consumed' = consumed \cup { req[r].token.id }
    /\ req' = [ req EXCEPT ![r] =
                  [ Done(@, Json(200, "", <<>>)) EXCEPT !.token = req[r].token ] ]
    /\ UNCHANGED <<users, sessions, tokens, now, nextSession, superseded>>

\* Expire all other tokens: the PENDING ones of the user; then success
VerifyCleanup(r) ==
    /\ req[r].op = "verify" /\ req[r].pc = "ve_cleanup"
    /\ tokens' = { IF /\ t.userId = req[r].row.id /\ t.type = "EMAIL"
                      /\ t.status = "PENDING"
                   THEN [ t EXCEPT !.status = "EXPIRED" ] ELSE t : t \in tokens }
    /\ consumed' = consumed \cup { req[r].token.id }
    /\ req' = [ req EXCEPT ![r] =
                  [ Done(@, Json(200, "", <<>>)) EXCEPT !.token = req[r].token ] ]
    /\ UNCHANGED <<users, sessions, now, nextSession, superseded>>

-----------------------------------------------------------------------------
(* The environment *)

\* The response is delivered; the slot takes the next request
Deliver(r) ==
    /\ req[r].pc = "done"
    /\ req' = [ req EXCEPT ![r] = IdleReq ]
    /\ UNCHANGED <<users, sessions, tokens, now, nextSession, consumed, superseded>>

\* No response is waiting to be delivered
Quiet == \A r \in Reqs : req[r].pc # "done"

Tick ==
    /\ now + TickMs <= MaxTicks * TickMs
    /\ now' = now + TickMs
    /\ UNCHANGED <<users, sessions, tokens, req, nextSession, consumed, superseded>>

\* A day passes, once the minutes have
TickDay ==
    /\ now + DayMs <= MaxDays * DayMs + MaxTicks * TickMs
    /\ now' = now + DayMs
    /\ UNCHANGED <<users, sessions, tokens, req, nextSession, consumed, superseded>>

\* The database outside the controller: a user row is deleted; the foreign
\* keys of sessions and tokens are ON DELETE cascade
DropUser ==
    \E u \in users :
        /\ users' = users \ {u}
        /\ sessions' = { s \in sessions : s.userId # u.id }
        /\ tokens' = { t \in tokens : t.userId # u.id }
        /\ UNCHANGED <<now, req, nextSession, consumed, superseded>>

-----------------------------------------------------------------------------
(* Specifications *)

\* Spec: the server after start-up over an empty database
Init ==
    /\ users = {} /\ sessions = {} /\ tokens = {}
    /\ now = 0
    /\ req = [ r \in 1..MaxReqs |-> IdleReq ]
    /\ nextSession = 1
    /\ consumed = {}
    /\ superseded = {}
    /\ calls = 0

\* A response is delivered as soon as the handler has returned: delivery
\* touches nothing but its own slot, so it goes first
Run(A) == Quiet /\ A /\ UNCHANGED calls

\* A request arrives: the first action of its handler.  Spec serves MaxCalls
\* requests.
Serve(A) == Quiet /\ calls < MaxCalls /\ A /\ calls' = calls + 1

Next ==
    \/ \E r \in Reqs : Serve(SignUpStart(r))
    \/ \E r \in Reqs : Serve(SignInStart(r))
    \/ \E r \in Reqs : Serve(SignOutStart(r))
    \/ \E r \in Reqs : Serve(MeStart(r))
    \/ \E r \in Reqs : Serve(SendStart(r))
    \/ \E r \in Reqs : Serve(ResendStart(r))
    \/ \E r \in Reqs : Serve(VerifyStart(r))
    \/ \E r \in Reqs : Run(SignUpSelect(r))
    \/ \E r \in Reqs : Run(SignUpHash(r))
    \/ \E r \in Reqs : Run(SignUpInsertUser(r))
    \/ \E r \in Reqs : Run(SignUpInsertSession(r))
    \/ \E r \in Reqs : Run(SignInSelect(r))
    \/ \E r \in Reqs : Run(SignInCompare(r))
    \/ \E r \in Reqs : Run(SignInDelete(r))
    \/ \E r \in Reqs : Run(SignInInsert(r))
    \/ \E r \in Reqs : Run(SignOutDelete(r))
    \/ \E r \in Reqs : Run(MeSelect(r))
    \/ \E r \in Reqs : Run(SendGetUser(r))
    \/ \E r \in Reqs : Run(SendFind(r))
    \/ \E r \in Reqs : Run(SendExpire(r))
    \/ \E r \in Reqs : Run(SendInsert(r))
    \/ \E r \in Reqs : Run(SendMail(r))
    \/ \E r \in Reqs : Run(ResendGetUser(r))
    \/ \E r \in Reqs : Run(ResendExpire(r))
    \/ \E r \in Reqs : Run(ResendInsert(r))
    \/ \E r \in Reqs : Run(ResendMail(r))
    \/ \E r \in Reqs : Run(VerifyGetUser(r))
    \/ \E r \in Reqs : Run(VerifyFind(r))
    \/ \E r \in Reqs : Run(VerifyExpire(r))
    \/ \E r \in Reqs : Run(VerifyFlag(r))
    \/ \E r \in Reqs : Run(VerifyCleanup(r))
    \/ \E r \in Reqs : Deliver(r) /\ UNCHANGED calls
    \/ Run(Tick)

Spec == Init /\ [][Next]_vars

\* The state after the first n sign-ups of distinct people have completed
SeedBody(i) ==
    [ firstName |-> Str1, lastName |-> Str1,
      email |-> IF i = 1 THEN Email1 ELSE Email2,
      phone |-> IF i = 1 THEN Phone1 ELSE Phone2, password |-> Secret ]

SeedUsers(n) ==
    { newUserRow(i, SeedBody(i), bcryptHash(Secret)) : i \in 1..n }

SeedSessions(n) ==
    { [ id |-> i, userId |-> i, token |-> i, expiresAt |-> LongSessionMs,
        createdAt |-> 0 ] : i \in 1..n }

Seeded(n, slots) ==
    /\ users = SeedUsers(n) /\ sessions = SeedSessions(n) /\ tokens = {}
    /\ now = 0
    /\ req = [ r \in 1..slots |-> IdleReq ]
    /\ nextSession = n + 1
    /\ consumed = {}
    /\ superseded = {}
    /\ calls = 0

\* SpecAll: the whole controller once the first person has signed up
InitAll == Seeded(1, MaxReqs)

SpecAll == InitAll /\ [][Next]_vars

\* SpecSess: the whole controller, one request at a time, over a day: the
\* sessions of ordinary sign-ins run out
InitSess == Seeded(1, MaxSerial)

NextSess ==
    \/ Next
    \/ Run(TickDay)

SpecSess == InitSess /\ [][NextSess]_vars

\* SpecSignUp: sign-up requests and nothing else, over an empty database
InitSignUp ==
    /\ users = {} /\ sessions = {} /\ tokens = {}
    /\ now = 0
    /\ req = [ r \in 1..MaxSignUps |-> IdleReq ]
    /\ nextSession = 1
    /\ consumed = {}
    /\ superseded = {}
    /\ calls = 0

NextSignUp ==
    \/ \E r \in Reqs : Run(SignUpStart(r))
    \/ \E r \in Reqs : Run(SignUpSelect(r))
    \/ \E r \in Reqs : Run(SignUpHash(r))
    \/ \E r \in Reqs : Run(SignUpInsertUser(r))
    \/ \E r \in Reqs : Run(SignUpInsertSession(r))
    \/ \E r \in Reqs : Deliver(r) /\ UNCHANGED calls

SpecSignUp == InitSignUp /\ [][NextSignUp]_vars

\* SpecTok: the token handlers of one signed-up user, any number of requests
InitTok == Seeded(1, MaxReqs)

NextTok ==
    \/ \E r \in Reqs : Run(SendStart(r))
    \/ \E r \in Reqs : Run(ResendStart(r))
    \/ \E r \in Reqs : Run(VerifyStart(r))
    \/ \E r \in Reqs : Run(SendGetUser(r))
    \/ \E r \in Reqs : Run(SendFind(r))
    \/ \E r \in Reqs : Run(SendExpire(r))
    \/ \E r \in Reqs : Run(SendInsert(r))
    \/ \E r \in Reqs : Run(SendMail(r))
    \/ \E r \in Reqs : Run(ResendGetUser(r))
    \/ \E r \in Reqs : Run(ResendExpire(r))
    \/ \E r \in Reqs : Run(ResendInsert(r))
    \/ \E r \in Reqs : Run(ResendMail(r))
    \/ \E r \in Reqs : Run(VerifyGetUser(r))
    \/ \E r \in Reqs : Run(VerifyFind(r))
    \/ \E r \in Reqs : Run(VerifyExpire(r))
    \/ \E r \in Reqs : Run(VerifyFlag(r))
    \/ \E r \in Reqs : Run(VerifyCleanup(r))
    \/ \E r \in Reqs : Deliver(r) /\ UNCHANGED calls
    \/ Run(Tick)

SpecTok == InitTok /\ [][NextTok]_vars

\* SpecIssue: a burst of send-email-verification requests and nothing else,
\* in one validity window: every request of the burst arrives before any of
\* them has looked for an existing token, and the responses are kept
Burst == \A r \in Reqs : req[r].pc \in {"idle", "user", "se_find"}

InitIssue == Seeded(2, MaxIssuers)

NextIssue ==
    \/ \E r \in Reqs : Burst /\ SendStart(r) /\ UNCHANGED calls
    \/ \E r \in Reqs : SendGetUser(r) /\ UNCHANGED calls
    \/ \E r \in Reqs : SendFind(r) /\ UNCHANGED calls
    \/ \E r \in Reqs : SendExpire(r) /\ UNCHANGED calls
    \/ \E r \in Reqs : SendInsert(r) /\ UNCHANGED calls
    \/ \E r \in Reqs : SendMail(r) /\ UNCHANGED calls

SpecIssue == InitIssue /\ [][NextIssue]_vars

\* SpecPair: the token handlers of two signed-up users, any number of
\* requests, within one validity window
InitPair == Seeded(2, MaxReqs)

NextPair ==
    \/ \E r \in Reqs : Run(SendStart(r))
    \/ \E r \in Reqs : Run(ResendStart(r))
    \/ \E r \in Reqs : Run(VerifyStart(r))
    \/ \E r \in Reqs : Run(SendGetUser(r))
    \/ \E r \in Reqs : Run(SendFind(r))
    \/ \E r \in Reqs : Run(SendExpire(r))
    \/ \E r \in Reqs : Run(SendInsert(r))
    \/ \E r \in Reqs : Run(SendMail(r))
    \/ \E r \in Reqs : Run(ResendGetUser(r))
    \/ \E r \in Reqs : Run(ResendExpire(r))
    \/ \E r \in Reqs : Run(ResendInsert(r))
    \/ \E r \in Reqs : Run(ResendMail(r))
    \/ \E r \in Reqs : Run(VerifyGetUser(r))
    \/ \E r \in Reqs : Run(VerifyFind(r))
    \/ \E r \in Reqs : Run(VerifyExpire(r))
    \/ \E r \in Reqs : Run(VerifyFlag(r))
    \/ \E r \in Reqs : Run(VerifyCleanup(r))
    \/ \E r \in Reqs : Deliver(r) /\ UNCHANGED calls

SpecPair == InitPair /\ [][NextPair]_vars

\* SpecGone: the handlers behind authenticateUser while the one user's row
\* may be deleted under the running requests
InitGone == Seeded(1, MaxReqs)

NextGone ==
    \/ \E r \in Reqs : Run(MeStart(r))
    \/ \E r \in Reqs : Run(SendStart(r))
    \/ \E r \in Reqs : Run(ResendStart(r))
    \/ \E r \in Reqs : Run(VerifyStart(r))
    \/ \E r \in Reqs : Run(MeSelect(r))
    \/ \E r \in Reqs : Run(SendGetUser(r))
    \/ \E r \in Reqs : Run(SendFind(r))
    \/ \E r \in Reqs : Run(SendExpire(r))
    \/ \E r \in Reqs : Run(SendInsert(r))
    \/ \E r \in Reqs : Run(SendMail(r))
    \/ \E r \in Reqs : Run(ResendGetUser(r))
    \/ \E r \in Reqs : Run(ResendExpire(r))
    \/ \E r \in Reqs : Run(ResendInsert(r))
    \/ \E r \in Reqs : Run(ResendMail(r))
    \/ \E r \in Reqs : Run(VerifyGetUser(r))
    \/ \E r \in Reqs : Run(VerifyFind(r))
    \/ \E r \in Reqs : Run(VerifyExpire(r))
    \/ \E r \in Reqs : Run(VerifyFlag(r))
    \/ \E r \in Reqs : Run(VerifyCleanup(r))
    \/ \E r \in Reqs : Deliver(r) /\ UNCHANGED calls
    \/ Run(DropUser)

SpecGone == InitGone /\ [][NextGone]_vars

-----------------------------------------------------------------------------
(* Properties *)

UserIds == { u.id : u \in users }

\* The tokens of a user that are PENDING in the table and not yet expired
ActiveTokens(userId) ==
    { t \in tokens : /\ t.userId = userId /\ t.type = "EMAIL"
                     /\ t.status = "PENDING" /\ t.expiresAt > now }

\* The send-email-verification requests of a user, and the end of a burst
IssuesOf(userId) == { r \in Reqs : req[r].op = "send" /\ req[r].reqUser = userId }

AllCompleted == \A r \in Reqs : req[r].pc \in {"idle", "done"}

\* C1: in every reachable state each (user, EMAIL) pair has at most one token
\* that is PENDING with expiresAt later than the current time.
C1_AtMostOnePending ==
    \A u \in UserIds : Cardinality(ActiveTokens(u)) <= 1

\* C2: when two or more send requests of one user have run concurrently from
\* a state with no active token and all have completed, each answered with
\* success, exactly one token of that user is PENDING.
C2_OnePendingAfterBurst ==
    \A u \in UserIds :
        ( /\ AllCompleted
          /\ Cardinality(IssuesOf(u)) >= 2
          /\ \A r \in IssuesOf(u) : req[r].res.status = 200 )
        => Cardinality({ t \in tokens : /\ t.userId = u /\ t.type = "EMAIL"
                                        /\ t.status = "PENDING" }) = 1

\* C3: when several overlapping send requests of one user have all been
\* answered with success inside one validity window, with no resend or verify
\* running, all of them returned the same code and that code is still
\* verifiable.
C3_SameCodeForAll ==
    \A u \in UserIds :
        ( /\ AllCompleted
          /\ Cardinality(IssuesOf(u)) >= 2
          /\ \A r \in IssuesOf(u) : req[r].res.status = 200 )
        => \E t \in ActiveTokens(u) :
             \A r \in IssuesOf(u) : req[r].res.data.code = t.code

\* C4: a send request whose lookup runs while the user has a PENDING,
\* unexpired token is answered with success carrying one such token (id and
\* code as stored), and that step leaves the tokens table unchanged.
C4_IdempotentReissue ==
    [][ \A r \in Reqs :
          ( /\ req[r].op = "send" /\ req[r].pc = "se_find"
            /\ req'[r] # req[r]
            /\ ActiveTokens(req[r].row.id) # {} )
          => /\ req'[r].pc = "done"
             /\ req'[r].res.status = 200
             /\ req'[r].res.data \in ActiveTokens(req[r].row.id)
             /\ tokens' = tokens ]_vars

C4_Witness ==
    \E r \in Reqs :
        /\ req[r].op = "send" /\ req[r].pc = "done"
        /\ req[r].res.status = 200
        /\ req[r].mailed = <<>>
        /\ req[r].res.data \in ActiveTokens(req[r].reqUser)

C6_Expiry ==
    [][ \A r \in Reqs :
          ( /\ req[r].op = "verify" /\ req[r].pc = "ve_find"
            /\ req'[r] # req[r]
            /\ \E t \in tokens : /\ t.code = toUpperCase(req[r].body.code)
                                 /\ t.expiresAt <= now )
          => /\ req'[r].pc = "done"
             /\ req'[r].res.status # 200
             /\ users' = users
             /\ tokens' = tokens ]_vars

C6_Witness ==
    \E r \in Reqs :
        /\ req[r].op = "verify" /\ req[r].pc = "done"
        /\ req[r].res.status = 500
        /\ \E t \in tokens :
             /\ t.userId = req[r].reqUser
             /\ t.code = toUpperCase(req[r].body.code)
             /\ t.status = "PENDING"
             /\ t.expiresAt <= now

C8_ConsumedOnce ==
    [][ \A r \in Reqs :
          ( /\ req[r].op = "verify" /\ req[r].pc = "ve_cleanup"
            /\ req'[r].pc = "done" /\ req'[r].res.status = 200 )
          => req[r].token.id \notin consumed ]_vars

\* C9: a user row is created with emailVerified and phoneVerified false, by
\* the insert of a sign-up; phoneVerified never changes; emailVerified
\* changes only to true, in the flag update of a verify request of that user
\* whose lookup has matched a stored EMAIL token of that user that was PENDING
\* and unexpired when it was looked up.
C9_FlagsOnlyByVerify ==
    [][ /\ \A v \in users' :
             (\A u \in users : u.id # v.id)
             => /\ ~ v.emailVerified /\ ~ v.phoneVerified
                /\ \E r \in Reqs : /\ req[r].op = "signUp"
                                   /\ req[r].pc = "su_insert"
                                   /\ req'[r].pc = "su_session"
        /\ \A u \in users :
             \E v \in users' :
                /\ v.id = u.id
                /\ v.phoneVerified = u.phoneVerified
                /\ (v.emailVerified # u.emailVerified)
                   => /\ v.emailVerified
                      /\ \E r \in Reqs :
                           /\ req[r].op = "verify" /\ req[r].pc = "ve_flag"
                           /\ req'[r].pc = "ve_cleanup"
                           /\ req[r].reqUser = u.id
                           /\ req[r].token.userId = u.id
                           /\ req[r].token.type = "EMAIL"
                           /\ req[r].token.status = "PENDING"
        /\ \A r \in Reqs :
             /\ ( /\ req[r].pc # "ve_expire" /\ req'[r].pc = "ve_expire" )
                => /\ req[r].op = "verify" /\ req[r].pc = "ve_find"
                   /\ req'[r].token \in tokens
                   /\ req'[r].token.userId = req[r].reqUser
                   /\ req'[r].token.type = "EMAIL"
                   /\ req'[r].token.status = "PENDING"
                   /\ req'[r].token.expiresAt > now
             /\ ( /\ req[r].pc # "ve_flag" /\ req'[r].pc = "ve_flag" )
                => /\ req[r].pc = "ve_expire"
                   /\ req'[r].token = req[r].token
                   /\ req'[r].reqUser = req[r].reqUser ]_vars

C9_Witness ==
    \E u, v \in users :
        /\ u.emailVerified /\ ~ u.phoneVerified
        /\ v.id # u.id
        /\ ~ v.emailVerified /\ ~ v.phoneVerified

\* C10: in every reachable state, under any interleaving of sign-up
\* requests, no two user rows share an email and no two share a phone.
C10_UniqueEmailPhone ==
    \A u, v \in users : u # v => (u.email # v.email /\ u.phone # v.phone)

C10_Witness ==
    /\ Cardinality(users) = 2
    /\ \E r \in Reqs :
         /\ req[r].op = "signUp" /\ req[r].pc = "done"
         /\ req[r].res.status = 500
         /\ \E u \in users : u.email = req[r].body.email

\* C11: a well-formed sign-up request that ends while a stored user holds its
\* email or its phone ends with 409 Conflict, and that step adds neither a
\* user nor a session.
C11_ConflictOnDuplicate ==
    [][ \A r \in Reqs :
          ( /\ req[r].op = "signUp"
            /\ req[r].pc \in {"su_select", "su_insert"}
            /\ req'[r].pc = "done"
            /\ \E u \in users : \/ u.email = req[r].body.email
                                \/ u.phone = req[r].body.phone )
          => /\ req'[r].res.status = 409
             /\ users' = users
             /\ sessions' = sessions ]_vars

\* The answer of a refused sign-in
Unauthorized401 ==
    [ status |-> 401, message |-> "Unauthorized", data |-> <<>>,
      cookie |-> NoCookie, maxAge |-> 0 ]

\* C12: a sign-in with an email no user has and a sign-in with a user's email
\* and a password that is not that user's end with the same answer, 401
\* Unauthorized with no cookie, and the step that refuses either one deletes
\* no session and creates none.
C12_UniformSignInFailure ==
    [][ \A r \in Reqs :
          ( /\ req[r].op = "signIn"
            /\ req'[r] # req[r]
            /\ \/ /\ req[r].pc = "si_select"
                  /\ \A u \in users : u.email # req[r].body.email
               \/ /\ req[r].pc = "si_compare"
                  /\ req[r].row.password # bcryptHash(req[r].body.password) )
          => /\ req'[r].pc = "done"
             /\ req'[r].res = Unauthorized401
             /\ sessions' = sessions
             /\ users' = users
             /\ nextSession' = nextSession ]_vars

C12_Witness ==
    \E r \in Reqs :
        /\ req[r].op = "signIn" /\ req[r].pc = "done"
        /\ req[r].res = Unauthorized401
        /\ sessions # {}
        /\ \E u \in users : /\ u.email = req[r].body.email
                            /\ u.password # bcryptHash(req[r].body.password)

\* The lifetime the TTL policy gives a session
PolicyTtl(q) ==
    IF q.op = "signUp" \/ q.body.rememberMe THEN 7 * 24 * 60 * 60 * 1000
    ELSE 24 * 60 * 60 * 1000

\* C13: a session is stored only by the insert of a sign-up or of a sign-in;
\* its expiresAt is the one the handler computed when it created the session,
\* which is the clock at that instant plus 7 days for a sign-up and for a
\* sign-in with rememberMe, plus 24 hours for a sign-in without; the cookie
\* answered with it carries the session's token and the same lifetime.
C13_SessionTtl ==
    [][ /\ \A r \in Reqs :
             /\ ( /\ req[r].pc \in {"su_insert", "si_compare"}
                  /\ req'[r].pc \in {"su_session", "si_delete"} )
                => req'[r].session.expiresAt = now + PolicyTtl(req[r])
             /\ ( req[r].pc = "si_delete" /\ req'[r].pc = "si_insert" )
                => req'[r].session = req[r].session
        /\ \A s \in sessions' \ sessions :
             \E r \in Reqs :
                /\ req[r].op \in {"signUp", "signIn"}
                /\ req[r].pc \in {"su_session", "si_insert"}
                /\ req'[r].pc = "done"
                /\ req'[r].res.status = IF req[r].op = "signUp" THEN 201 ELSE 200
                /\ s.userId = req[r].row.id
                /\ s.token = req[r].session.token
                /\ s.expiresAt = req[r].session.expiresAt
                /\ req'[r].res.cookie = s.token
                /\ req'[r].res.maxAge = PolicyTtl(req[r]) ]_vars

C13_Witness ==
    \E r \in Reqs :
        /\ req[r].op = "signIn" /\ req[r].pc = "done"
        /\ req[r].res.status = 200
        /\ ~ req[r].body.rememberMe
        /\ req[r].res.maxAge = ShortSessionMs
        /\ \E s \in sessions :
             /\ s.token = req[r].res.cookie
             /\ s.createdAt > 0
             /\ s.expiresAt <= s.createdAt + ShortSessionMs
             /\ s.expiresAt >= ShortSessionMs

\* C15: a sign-out request always ends with 200 and a cleared cookie.  With
\* no cookie it changes nothing; with a cookie its delete removes the sessions
\* bearing that token, at most one, and nothing else, so that afterwards no
\* session bears the token and a repeated sign-out removes nothing.
C15_SignOutIdempotent ==
    [][ \A r \in Reqs :
          /\ ( req'[r].op = "signOut" /\ req[r].pc = "idle" )
             => /\ sessions' = sessions
                /\ \/ req'[r].pc = "so_delete" /\ req'[r].cookie # NoCookie
                   \/ /\ req'[r].pc = "done"
                      /\ req'[r].res.status = 200
                      /\ req'[r].res.cookie = ClearedCookie
          /\ ( req[r].op = "signOut" /\ req[r].pc = "so_delete" /\ req'[r] # req[r] )
             => /\ req'[r].pc = "done"
                /\ req'[r].res.status = 200
                /\ req'[r].res.cookie = ClearedCookie
                /\ sessions' = { s \in sessions : s.token # req[r].cookie }
                /\ Cardinality(sessions \ sessions') <= 1
                /\ \A s \in sessions' : s.token # req[r].cookie
                /\ users' = users /\ tokens' = tokens ]_vars

C15_Witness ==
    /\ sessions # {}
    /\ Cardinality(sessions) < nextSession - 1
    /\ \E r \in Reqs :
         /\ req[r].op = "signOut" /\ req[r].pc = "done"
         /\ req[r].res.status = 200
         /\ req[r].res.cookie = ClearedCookie

\* The routes behind authenticateUser
Protected == {"me", "send", "resend", "verify"}

\* C14: a request to a protected route whose cookie names a stored session
\* with expiresAt <= now is answered 401 Unauthorized on arrival and goes no
\* further; a request is given a user only by a stored, unexpired session of
\* that user; and the arrival of a protected request changes no table.
C14_ExpiredSessionRefused ==
    [][ \A r \in Reqs :
          ( req[r].pc = "idle" /\ req'[r].op \in Protected )
          => /\ users' = users /\ sessions' = sessions /\ tokens' = tokens
             /\ (\E s \in sessions : /\ s.token = req'[r].cookie
                                     /\ s.expiresAt <= now)
                => /\ req'[r].pc = "done"
                   /\ req'[r].res = Unauthorized401
                   /\ req'[r].reqUser = NoUser
             /\ (req'[r].reqUser # NoUser)
                => \E s \in sessions : /\ s.userId = req'[r].reqUser
                                       /\ s.expiresAt > now
             /\ (req'[r].pc # "done")
                => \E s \in sessions : /\ s.token = req'[r].cookie
                                       /\ s.userId = req'[r].reqUser
                                       /\ s.expiresAt > now ]_vars

C14_Witness ==
    \E r \in Reqs :
        /\ req[r].op \in Protected /\ req[r].pc = "done"
        /\ req[r].res = Unauthorized401
        /\ \E s \in sessions : /\ s.token = req[r].cookie
                               /\ s.expiresAt <= now


\* The answer of a catch block: res.status(500), 'Internal Server Error'
InternalAnswer ==
    [ status |-> 500, message |-> "Internal Server Error", data |-> <<>>,
      cookie |-> NoCookie, maxAge |-> 0 ]

SendOps == {"send", "resend"}

\* C16: every send_email_verification request answered 200 has handed the
\* code of the token it returns to the Notification Sender during the request.
C16_SuccessMeansMailed ==
    \A r \in Reqs :
        ( req[r].op = "send" /\ req[r].pc = "done" /\ req[r].res.status = 200 )
        => /\ req[r].mailed # <<>>
           /\ req[r].mailed.code = req[r].res.data.code

\* C17: when the Notification Sender fails in send_email_verification or
\* resend_email_verification the answer is the Internal one and the step
\* changes no token: the token the request inserted is still stored, with
\* the status and expiry it had before the send.
C17_NoRollbackOnSendFailure ==
    [][ \A r \in Reqs :
          ( /\ req[r].op \in SendOps /\ req[r].pc \in {"se_mail", "re_mail"}
            /\ req'[r].pc = "done" /\ req'[r].res.status # 200 )
          => /\ req'[r].res = InternalAnswer
             /\ req'[r].mailed # <<>>
             /\ req'[r].mailed.code = req[r].token.code
             /\ tokens' = tokens
             /\ \E t \in tokens' : /\ t.id = req[r].token.id
                                   /\ t.code = req[r].token.code
                                   /\ t.userId = req[r].reqUser ]_vars

\* A request whose send failed, with its token still PENDING and unexpired
C17_Witness ==
    \E r \in Reqs :
        /\ req[r].op \in SendOps /\ req[r].pc = "done"
        /\ req[r].res = InternalAnswer /\ req[r].mailed # <<>>
        /\ \E t \in ActiveTokens(req[r].reqUser) : t.code = req[r].mailed.code

\* C18: a verify for which no token matches ends with an answer that is not
\* the Internal one of the catch block, and changes no token and no user.
C18_RejectedIsNotInternal ==
    [][ \A r \in Reqs :
          ( /\ req[r].op = "verify" /\ req[r].pc = "ve_find"
            /\ validTokens(req[r].row.id, req[r].body.code) = {} )
          => /\ req'[r].pc = "done"
             /\ req'[r].res # InternalAnswer
             /\ tokens' = tokens /\ users' = users ]_vars

\* C19: a step of a send or resend request that turns a PENDING token of its
\* user EXPIRED also stores the request's new token; the supersede is never
\* visible without the insert.
C19_SupersedeWithInsert ==
    [][ \A r \in Reqs :
          ( /\ req[r].op \in SendOps
            /\ \E t \in tokens :
                 /\ t.userId = req[r].row.id /\ t.status = "PENDING"
                 /\ \E x \in tokens' : x.id = t.id /\ x.status = "EXPIRED"
            /\ req'[r] # req[r] )
          => \E n \in tokens' :
               /\ n.id \notin { t.id : t \in tokens }
               /\ n.userId = req[r].row.id /\ n.status = "PENDING" ]_vars

\* C20: a user a sign-up request has stored comes with the session of that
\* request: no sign-up request is past its user insert without its session.
C20_UserComesWithSession ==
    \A r \in Reqs :
        ( /\ req[r].op = "signUp" /\ req[r].row.id # 0
          /\ \E u \in users : u.id = req[r].row.id )
        => \E s \in sessions : /\ s.userId = req[r].row.id
                               /\ s.id = req[r].session.id


TokenOps == {"send", "resend", "verify"}

\* C21: a step of a send, resend or verify request of user K changes no
\* token of another user, and the insert of K's new token does not fail
\* when none of K's own tokens holds the new code: the tokens of other users
\* have no part in the outcome.
C21_DisjointKeysIndependent ==
    [][ \A r \in Reqs :
          ( req[r].op \in TokenOps /\ req'[r] # req[r] )
          => /\ \A t \in tokens : t.userId # req[r].reqUser => t \in tokens'
             /\ ( /\ req[r].pc \in {"se_insert", "re_insert"}
                  /\ \A t \in tokens :
                       t.userId = req[r].reqUser => t.code # req[r].code )
                => /\ req'[r].pc # "done"
                   /\ \E n \in tokens' : /\ n.userId = req[r].reqUser
                                         /\ n.code = req[r].code
                                         /\ n.status = "PENDING" ]_vars


\* C26: in every reachable state no two stored tokens share a code, whoever
\* they belong to and whatever their status.
C26_UniqueCodes ==
    \A t1, t2 \in tokens : t1.code = t2.code => t1 = t2

\* Two users hold tokens, and a request drawing a stored code was refused
C26_Witness ==
    /\ \E t1, t2 \in tokens : t1.userId # t2.userId
    /\ \E t \in tokens : t.status = "EXPIRED"
    /\ \E r \in Reqs : /\ req[r].op \in SendOps /\ req[r].pc = "done"
                       /\ req[r].res = InternalAnswer /\ req[r].mailed = <<>>


\* The PENDING, unexpired tokens of users other than userId with this code
ForeignTokens(userId, code) ==
    { t \in tokens : /\ t.userId # userId /\ t.code = toUpperCase(code)
                     /\ t.status = "PENDING" /\ t.expiresAt > now }

\* C28: a verify by user A carrying the code of a PENDING, unexpired token of
\* another user B is refused at the lookup: it is not answered 200, no
\* emailVerified flag changes and B's token stays PENDING.
C28_CodeBoundToOwner ==
    [][ \A r \in Reqs :
          ( /\ req[r].op = "verify" /\ req[r].pc = "ve_find"
            /\ req'[r] # req[r]
            /\ ForeignTokens(req[r].row.id, req[r].body.code) # {} )
          => /\ req'[r].pc = "done" /\ req'[r].res.status # 200
             /\ users' = users
             /\ tokens' = tokens ]_vars

\* A refused verify of one user whose code is another user's active token,
\* with neither user verified
C28_Witness ==
    \E r \in Reqs :
        /\ req[r].op = "verify" /\ req[r].pc = "done" /\ req[r].res.status # 200
        /\ req[r].reqUser # NoUser
        /\ ForeignTokens(req[r].reqUser, req[r].body.code) # {}
        /\ \A u \in users : ~ u.emailVerified


\* res.status(400).json({success: false, message: 'Bad Request'})
ValidationError ==
    [ status |-> 400, message |-> "Bad Request", data |-> <<>>,
      cookie |-> NoCookie, maxAge |-> 0 ]

\* A sign-up body with an empty field, a malformed email or a short password
BadSignUp(b) ==
    \/ <<>> \in {b.firstName, b.lastName, b.email, b.phone, b.password}
    \/ ~ emailRegexTest(b.email)
    \/ Len(b.password) < 6

\* A verify code that is not exactly 6 alphanumeric characters
BadCode(code) == Len(code) # 6 \/ ~ alnumRegexTest(code)

\* C22: a sign-up with an empty field, a malformed email or a password
\* shorter than 6 characters, and a verify of a signed-in caller with a code
\* that is not exactly 6 alphanumeric characters, are answered 400 Bad
\* Request in the step they arrive in, with users, sessions and tokens
\* unchanged.
C22_ValidationBeforeStorage ==
    [][ \A r \in Reqs :
          ( /\ req[r].pc = "idle"
            /\ \/ req'[r].op = "signUp" /\ BadSignUp(req'[r].body)
               \/ /\ req'[r].op = "verify" /\ req'[r].reqUser # NoUser
                  /\ BadCode(req'[r].body.code) )
          => /\ req'[r].pc = "done"
             /\ req'[r].res = ValidationError
             /\ users' = users /\ sessions' = sessions /\ tokens' = tokens ]_vars

\* A signed-in caller's verify with a code of three characters, refused
C22_Witness ==
    \E r \in Reqs : /\ req[r].op = "verify" /\ req[r].pc = "done"
                    /\ req[r].reqUser # NoUser
                    /\ req[r].res = ValidationError
                    /\ Len(req[r].body.code) = 3


\* C23: the delete of a sign-in of user u removes exactly the sessions of u
\* whose expiresAt is before the instant of the sign-in, and the insert that
\* completes it adds the new session and removes none: when the sign-in is
\* answered, no session of u with an expiresAt before that instant is stored.
C23_PruneBeforeMint ==
    [][ \A r \in Reqs :
          ( req[r].op = "signIn" /\ req'[r] # req[r] )
          => /\ req[r].pc = "si_delete"
                => sessions' = { s \in sessions :
                                   \/ s.userId # req[r].row.id
                                   \/ s.expiresAt >= req[r].session.cutoff }
             /\ req[r].pc = "si_insert"
                => /\ sessions \subseteq sessions'
                   /\ req'[r].res.status = 200
                      => /\ \A s \in sessions' :
                              s.userId = req[r].row.id
                              => s.expiresAt >= req[r].session.cutoff
                         /\ \E s \in sessions' \ sessions :
                              /\ s.id = req[r].session.id
                              /\ sessions' = sessions \cup {s}
             /\ req[r].pc \notin {"si_delete", "si_insert"}
                => sessions' = sessions ]_vars

\* A sign-in past its delete: a session minted before it is gone, and one
\* whose expiresAt is the very instant of the sign-in or later is kept
C23_Witness ==
    \E r \in Reqs :
        /\ req[r].op = "signIn" /\ req[r].pc = "si_insert"
        /\ req[r].session.cutoff > DayMs
        /\ \E i \in 1..(req[r].session.id - 1) : \A s \in sessions : s.id # i
        /\ \E s \in sessions : s.userId = req[r].row.id


\* The tokens of (userId, EMAIL) whose stored status is PENDING
PendingTokens(userId) ==
    { t \in tokens : t.userId = userId /\ t.type = "EMAIL" /\ t.status = "PENDING" }

\* C24: the step that completes a successful verify leaves no token of the
\* caller with stored status PENDING, however many there were before it.
C24_CleanupLeavesNonePending ==
    [][ \A r \in Reqs :
          ( /\ req[r].op = "verify" /\ req[r].pc # "done"
            /\ req'[r].pc = "done" /\ req'[r].res.status = 200 )
          => /\ \A t \in tokens' :
                  (t.userId = req[r].row.id /\ t.type = "EMAIL")
                  => t.status = "EXPIRED"
             /\ { t.id : t \in tokens' } = { t.id : t \in tokens }
             /\ \A t \in tokens : t.userId # req[r].row.id => t \in tokens' ]_vars

\* A verify that has matched and marked its token while the caller holds a
\* further PENDING token
C24_Witness ==
    \E r \in Reqs :
        /\ req[r].op = "verify" /\ req[r].pc = "ve_cleanup"
        /\ \E t \in tokens : t.id = req[r].token.id /\ t.status = "EXPIRED"
        /\ PendingTokens(req[r].row.id) # {}

\* C25: no step deletes a stored token, turns an EXPIRED token PENDING or
\* changes the userId, code, purpose or expiresAt of a token.
C25_TokenHistoryMonotone ==
    [][ \A t \in tokens :
          \E n \in tokens' :
              /\ n.id = t.id /\ n.userId = t.userId /\ n.code = t.code
              /\ n.type = t.type /\ n.expiresAt = t.expiresAt
              /\ n.createdAt = t.createdAt
              /\ t.status = "EXPIRED" => n.status = "EXPIRED" ]_vars

\* A token superseded by a resend is kept, EXPIRED, next to the PENDING
\* token issued after it
C25_Witness ==
    \E t1, t2 \in tokens :
        /\ t1.id \in superseded \ consumed /\ t1.status = "EXPIRED"
        /\ t2.status = "PENDING" /\ t2.userId = t1.userId
        /\ t2.id > t1.id


\* The tokens of userId a verify by userId with the token's own code would
\* match at this instant
AcceptedByVerify(userId) ==
    { t \in tokens : /\ t.userId = userId /\ verifyValid(t.code)
                     /\ t \in validTokens(userId, t.code) }

\* C29: when send-email-verification returns an existing token, a verify by
\* the same user with that token's code would match it at that instant; and
\* it goes on to mint a new token exactly when verify would accept no token
\* of the user.
C29_IssueAgreesWithVerify ==
    [][ \A r \in Reqs :
          ( req[r].op = "send" /\ req[r].pc = "se_find" /\ req'[r] # req[r] )
          => /\ req'[r].pc = "done"
                => /\ req'[r].res.status = 200
                   /\ req'[r].res.data \in AcceptedByVerify(req[r].row.id)
                   /\ tokens' = tokens
             /\ req'[r].pc # "done"
                => /\ req'[r].pc = "se_expire"
                   /\ AcceptedByVerify(req[r].row.id) = {}
             /\ AcceptedByVerify(req[r].row.id) = {} => req'[r].pc = "se_expire" ]_vars

\* A send answered with the token the user already had, which a verify
\* would accept, after an earlier token of the user ran out
C29_Witness ==
    \E r \in Reqs :
        /\ req[r].op = "send" /\ req[r].pc = "done" /\ req[r].res.status = 200
        /\ req[r].mailed = <<>>
        /\ req[r].res.data \in AcceptedByVerify(req[r].reqUser)
        /\ \E t \in tokens : t.userId = req[r].reqUser /\ t.expiresAt <= now


=============================================================================
